---- MODULE Spec2Model ----
(***************************************************************************)
(* forkwork: a command line client that analyses the forks of a GitHub     *)
(* repository.  One run is: the group callback `cli` (login, resolve the   *)
(* URL, fetch the fork list, build the context), then one subcommand,      *)
(* `fnm` (commits of forks missing upstream) or `top` (rank the forks).    *)
(*                                                                         *)
(* The remote API is the environment.  The fork list and the answer of     *)
(* every secondary per-fork request are drawn when the request is made.    *)
(* Python values that the code passes around under one name but that can   *)
(* be of different types (a str, a Repository) are tagged records.         *)
(***************************************************************************)
EXTENDS Integers, Sequences, FiniteSets

VARIABLES pc, cmd, url, ctx, sort, rows, repos, i, calls, out, err

vars == <<pc, cmd, url, ctx, sort, rows, repos, i, calls, out, err>>

----------------------------------------------------------------------------
(* Bounds of the model *)

MaxForks == 3
MaxVal == 1
MaxRows == 2
MaxNegRows == 1

(* --rows default, forkwork.py line 79 *)
DefaultRows == 10

----------------------------------------------------------------------------
(* Python values *)

PyNone == [type |-> "NoneType", login |-> "", name |-> ""]
PyStr(s) == [type |-> "str", login |-> "", name |-> s]
(* what gh.repository(login, repo) returns *)
RepositoryObj(login, repo) == [type |-> "Repository", login |-> login, name |-> repo]

(* attribute lookup: a github3 Repository has commits(), a str has not *)
HasAttr(obj, attr) ==
    IF obj.type = "Repository" THEN attr \in {"commits", "forks", "branches", "contributors"}
    ELSE FALSE

Min(a, b) == IF a <= b THEN a ELSE b
Max(a, b) == IF a >= b THEN a ELSE b

(* s[:n] of a Python list *)
PySlice(s, n) ==
    IF n >= 0 THEN SubSeq(s, 1, Min(n, Len(s)))
    ELSE SubSeq(s, 1, Max(Len(s) + n, 0))

----------------------------------------------------------------------------
(* The remote data *)

NotFound == "NotFound"
OtherError == "ConnectionError"

(* The commit messages of the upstream repository, as repository.commits() lists them *)
UpstreamMessages == <<0>>

(* What fork.commits() answers for a fork: a 404, or the list of commit messages *)
ForkCommits(v) ==
    IF v = 0 THEN [status |-> NotFound, list |-> <<>>]
    ELSE [status |-> "ok", list |-> <<v, 0, v>>]

(* A fork as repository.forks() returns it: position k in the list, metrics v *)
Fork(k, v) ==
    [html_url |-> k,
     owner_login |-> k,
     name |-> "repo",
     stargazers_count |-> v,
     forks_count |-> MaxVal - v,
     open_issues_count |-> v,
     updated_at |-> v,
     pushed_at |-> 8 * (MaxVal - v),
     commits |-> ForkCommits(v)]

ForkLists ==
    UNION {{[k \in 1..n |-> Fork(k, f[k])] : f \in [1..n -> 0..MaxVal]} : n \in 0..MaxForks}

(* Answers of the secondary per-fork request of a slow sort key: the metric, *)
(* a 404 (NotFoundError) or any other failure                                *)
Responses ==
    {[status |-> NotFound, value |-> 0], [status |-> OtherError, value |-> 0]}
        \cup {[status |-> "ok", value |-> n] : n \in 0..MaxVal}

(* today, in days: no timestamp is in the future *)
Now == 8 * MaxVal + 1

----------------------------------------------------------------------------
(* Command line *)

FastKeys == {"stargazers_count", "forks_count", "open_issues_count", "updated_at", "pushed_at"}
SlowKeys == {"branches", "commits", "watchers"}
SortKeys == FastKeys \cup SlowKeys
DefaultSort == "stargazers_count"

RowsDomain == ((0 - MaxNegRows)..MaxRows) \cup {DefaultRows}

(* urlparse(url).path[1:].split("/") for ".../owner/repo" and ".../owner/repo/" *)
Urls == {<<"owner", "repo">>, <<"owner", "repo", "">>}

NoCtx == [repository |-> PyNone, forks |-> <<>>, gh |-> "None"]
RepoCtx(repository, forks, gh) == [repository |-> repository, forks |-> forks, gh |-> gh]

----------------------------------------------------------------------------
Init ==
    /\ pc = "start"
    /\ cmd \in {"fnm", "top"}
    /\ url \in Urls
    /\ ctx = NoCtx
    /\ sort = DefaultSort
    /\ rows = DefaultRows
    /\ repos = <<>>
    /\ i = 0
    /\ calls = <<>>
    /\ out = <<>>
    /\ err = ""

Raise(e) ==
    /\ pc' = "crashed"
    /\ err' = e

(* cli, lines 37-55 *)
CliBuildCtx(repo, repository, forks, gh) == RepoCtx(PyStr(repo), forks, gh)

Cli ==
    /\ pc = "start"
    /\ \E token \in BOOLEAN :
         \E net \in {"ok", "AuthenticationFailed", OtherError} :
           \E forks \in ForkLists :
             IF Len(url) # 2
             THEN /\ Raise("ValueError")
                  /\ UNCHANGED ctx
             ELSE IF net # "ok"
             THEN /\ Raise(net)
                  /\ UNCHANGED ctx
             ELSE /\ ctx' = CliBuildCtx(url[2], RepositoryObj(url[1], url[2]), forks, "gh")
                  /\ pc' = cmd
                  /\ UNCHANGED err
    /\ UNCHANGED <<cmd, url, sort, rows, repos, i, calls, out>>

(* fnm, lines 60-61: repo_ctx.repository.commits().  The context holds the  *)
(* str `repo`, which has no attribute commits, so the call raises and the   *)
(* loop of lines 63-75 is never entered.                                    *)
Fnm ==
    /\ pc = "fnm"
    /\ ~HasAttr(ctx.repository, "commits")
    /\ Raise("AttributeError")
    /\ UNCHANGED <<cmd, url, ctx, sort, rows, repos, i, calls, out>>

----------------------------------------------------------------------------
(* top *)

BaseKeys == <<"html_url", "stargazers_count", "forks_count", "open_issues_count",
              "updated_at", "pushed_at">>
BaseHeaders == <<"URL", "Stars", "Forks", "Open Issues", "Last update", "Pushed At">>

Capitalize(s) ==
    CASE s = "branches" -> "Branches"
      [] s = "commits" -> "Commits"
      [] s = "watchers" -> "Watchers"
      [] OTHER -> s

(* lines 94-114: the columns of the Repo namedtuple and the table headers *)
columns(s) == IF s \in SlowKeys THEN Append(BaseKeys, s) ELSE BaseKeys
headers(s) == IF s \in SlowKeys THEN Append(BaseHeaders, Capitalize(s)) ELSE BaseHeaders

Range(f) == {f[k] : k \in DOMAIN f}

(* the Repo tuple of def_prop, lines 117-124, with the appended metric of a slow key *)
Repo(fork, s, extra) ==
    [k \in Range(columns(s)) |-> IF k \in SlowKeys THEN extra ELSE fork[k]]

RecoveredAnyError(resp) == TRUE

(* except github3.exceptions.NotFoundError, lines 130, 137, 143 *)
Recovered(resp) == resp.status = NotFound

(* what click.echo writes to stdout: a "Repository ... not found" notice, the table *)
(* (a line of kind "commit" would carry index and message, line 73)                  *)
Notice(u) ==
    [kind |-> "notice", url |-> u, index |-> 0, message |-> 0, headers |-> <<>>, rows |-> <<>>]
Table(h, r) ==
    [kind |-> "table", url |-> 0, index |-> 0, message |-> 0, headers |-> h, rows |-> r]

(* lines 92-114; click parses the subcommand's options after cli has run *)
TopStart ==
    /\ pc = "top"
    /\ \E s \in SortKeys : sort' = s
    /\ \E r \in RowsDomain : rows' = r
    /\ repos' = <<>>
    /\ i' = 1
    /\ pc' = "top_loop"
    /\ UNCHANGED <<cmd, url, ctx, calls, out, err>>

ReposAfterKeeps404(rs, fork, s, resp) == Append(rs, Repo(fork, s, resp.value))

(* the try block of a slow key, lines 127-144 *)
ReposAfter(rs, fork, s, resp) ==
    IF resp.status = "ok" THEN Append(rs, Repo(fork, s, resp.value)) ELSE rs

(* one iteration of the loop of lines 116-146 *)
TopFork ==
    /\ pc = "top_loop"
    /\ i <= Len(ctx.forks)
    /\ LET fork == ctx.forks[i] IN
         IF sort \in SlowKeys
         THEN \E resp \in Responses :
                /\ calls' = Append(calls, resp)
                /\ repos' = ReposAfter(repos, fork, sort, resp)
                /\ IF resp.status = "ok"
                   THEN /\ i' = i + 1
                        /\ UNCHANGED <<pc, err, out>>
                   ELSE IF Recovered(resp)
                   THEN /\ out' = Append(out, Notice(fork.html_url))
                        /\ i' = i + 1
                        /\ UNCHANGED <<pc, err>>
                   ELSE /\ Raise(resp.status)
                        /\ UNCHANGED <<i, out>>
         ELSE /\ repos' = Append(repos, Repo(fork, sort, 0))
              /\ i' = i + 1
              /\ UNCHANGED <<pc, err, out, calls>>
    /\ UNCHANGED <<cmd, url, ctx, sort, rows>>

(* attrgetter(sort) *)
attrgetter(r, key) == r[key]

BeforeAscending(a, b) == a < b

(* the order of sorted(..., reverse=True): descending *)
Before(a, b) == a > b

RECURSIVE Insert(_, _, _)
Insert(x, t, key) ==
    IF Len(t) = 0 \/ ~Before(attrgetter(Head(t), key), attrgetter(x, key))
    THEN <<x>> \o t
    ELSE <<Head(t)>> \o Insert(x, Tail(t), key)

(* sorted(repos, key=attrgetter(sort), reverse=True), line 148: stable *)
RECURSIVE sorted_forks(_, _)
sorted_forks(rs, key) ==
    IF Len(rs) = 0 THEN <<>>
    ELSE Insert(Head(rs), sorted_forks(Tail(rs), key), key)

(* lines 151-154: whole days passed, then pendulum's diff_for_humans *)
Humanize(t) ==
    LET days == Now - t IN
    IF days >= 7 THEN [n |-> days \div 7, unit |-> "weeks ago"]
    ELSE IF days > 0 THEN [n |-> days, unit |-> "days ago"]
    ELSE [n |-> 0, unit |-> "a few seconds ago"]

(* lines 149-155 *)
humanize_dates_forks(sf, r) ==
    LET cut == PySlice(sf, r) IN
    [k \in 1..Len(cut) |->
        [cut[k] EXCEPT !["updated_at"] = Humanize(@), !["pushed_at"] = Humanize(@)]]

(* lines 148-158 *)
TopRender ==
    /\ pc = "top_loop"
    /\ i > Len(ctx.forks)
    /\ out' = Append(out, Table(headers(sort),
                                humanize_dates_forks(sorted_forks(repos, sort), rows)))
    /\ pc' = "done"
    /\ UNCHANGED <<cmd, url, ctx, sort, rows, repos, i, calls, err>>

Next == Cli \/ Fnm \/ TopStart \/ TopFork \/ TopRender

Spec == Init /\ [][Next]_vars

----------------------------------------------------------------------------
(* Properties *)

Ended == pc \in {"done", "crashed"}
CtxBuilt == ctx # NoCtx

(* the rows of the printed table, once top has finished *)
OutputRows == out[Len(out)].rows
Urls_of(rs) == [k \in 1..Len(rs) |-> rs[k]["html_url"]]

(* the value of the sort field a fork had before the dates were humanized *)
Raw(u) == (CHOOSE r \in Range(repos) : r["html_url"] = u)[sort]

TablePrinted == \E k \in 1..Len(out) : out[k].kind = "table"
NoticeFor(u) == \E k \in 1..Len(out) : out[k].kind = "notice" /\ out[k].url = u

(* C1: the rows of the table of top are fetched forks, and each row's raw  *)
(* value of the sort field is >= that of the row after it.                 *)
C1_OutputSortedDescending ==
    pc = "done" =>
        /\ \A k \in 1..Len(OutputRows) : OutputRows[k]["html_url"] \in Range(Urls_of(repos))
        /\ \A k \in 1..(Len(OutputRows) - 1) :
              Raw(OutputRows[k]["html_url"]) >= Raw(OutputRows[k + 1]["html_url"])

C1_Witness ==
    /\ pc = "done"
    /\ sort = "updated_at"
    /\ Len(OutputRows) >= 3
    /\ repos[1][sort] < repos[2][sort]
    /\ Raw(OutputRows[1]["html_url"]) = Raw(OutputRows[2]["html_url"])
    /\ Raw(OutputRows[2]["html_url"]) > Raw(OutputRows[3]["html_url"])
    /\ OutputRows[2]["updated_at"] = OutputRows[3]["updated_at"]
    /\ OutputRows[1]["updated_at"] = OutputRows[2]["updated_at"]

(* C2: for every integer row limit, the table of top has at most `rows` rows. *)
C2_AtMostRows ==
    pc = "done" => Len(OutputRows) <= rows

(* C3: with a slow key the forks ranked are exactly the forks whose secondary *)
(* call succeeded, in list order; each 404 fork has a notice and the loop     *)
(* goes on to the forks after it; only a failure other than 404 ends the run. *)
(* With a fast key every fork processed so far is ranked and none is noticed. *)
C3_NotFoundExcluded ==
    pc \in {"top_loop", "done"} =>
        /\ pc = "done" => i = Len(ctx.forks) + 1
        /\ IF sort \in SlowKeys
           THEN /\ Len(calls) = i - 1
                /\ \A k \in 1..(i - 1) :
                      /\ calls[k].status \in {"ok", NotFound}
                      /\ calls[k].status = "ok"
                           <=> ctx.forks[k].html_url \in Range(Urls_of(repos))
                      /\ calls[k].status = NotFound <=> NoticeFor(ctx.forks[k].html_url)
                /\ Len(repos) = Cardinality({k \in 1..(i - 1) : calls[k].status = "ok"})
                /\ \A k \in 1..Len(repos) : repos[k][sort] = calls[repos[k]["html_url"]].value
           ELSE /\ Urls_of(repos) = [k \in 1..(i - 1) |-> ctx.forks[k].html_url]
                /\ out = <<>> \/ pc = "done"
                /\ \A k \in 1..Len(out) : out[k].kind # "notice"

C3_Witness ==
    /\ pc = "done"
    /\ sort \in SlowKeys
    /\ Len(calls) = 3
    /\ calls[1].status = "ok"
    /\ calls[2].status = NotFound
    /\ calls[3].status = "ok"
    /\ NoticeFor(ctx.forks[2].html_url)
    /\ Len(OutputRows) = 2
    /\ OutputRows[1]["html_url"] = ctx.forks[3].html_url

(* C7: a failure other than a fork's 404 is never recovered from: it is the  *)
(* last thing the run did, the run has ended with that error, forks after it *)
(* are not processed and no table is printed.                                *)
C7_OtherErrorsPropagate ==
    /\ \A k \in 1..Len(calls) :
          calls[k].status \notin {"ok", NotFound}
             => /\ k = Len(calls)
                /\ pc = "crashed"
                /\ err = calls[k].status
                /\ i = k
    /\ pc = "crashed" => /\ ~TablePrinted
                         /\ err \notin {"", NotFound}
                         /\ ~CtxBuilt => i = 0 /\ out = <<>>
    /\ err # "" => pc = "crashed"

C7_Witness ==
    /\ pc = "crashed"
    /\ sort \in SlowKeys
    /\ Len(ctx.forks) = 3
    /\ Len(calls) = 2
    /\ calls[1].status = NotFound
    /\ calls[2].status = OtherError
    /\ NoticeFor(ctx.forks[1].html_url)

(* C8: the table holds the first min(rows, n) of the n fetched forks in      *)
(* descending order: that many rows, and no fork left out has a strictly     *)
(* greater value than a fork that is in.                                     *)
C8_TruncateAfterSort ==
    pc = "done" =>
        /\ Len(OutputRows) = Max(Min(rows, Len(repos)), 0)
        /\ \A k \in 1..Len(repos) :
              repos[k]["html_url"] \notin Range(Urls_of(OutputRows))
                 => \A j \in 1..Len(OutputRows) :
                       repos[k][sort] <= Raw(OutputRows[j]["html_url"])

(* The commits fnm has to report for a fork: position and message of each   *)
(* commit whose message is not an upstream message.                         *)
Missing(fork) ==
    IF fork.commits.status # "ok" THEN {}
    ELSE {j \in 1..Len(fork.commits.list) : fork.commits.list[j] \notin Range(UpstreamMessages)}

MissingMessages(fork) == {fork.commits.list[j] : j \in Missing(fork)}

CommitLines == {k \in 1..Len(out) : out[k].kind = "commit"}
FnmEnded == cmd = "fnm" /\ Ended /\ CtxBuilt

(* C4: when fnm ends, each distinct missing message of a fork is in the     *)
(* output for that fork exactly once.                                       *)
C4_MissingOncePerMessage ==
    FnmEnded =>
        \A f \in Range(ctx.forks) : \A m \in MissingMessages(f) :
            Cardinality({k \in CommitLines :
                            out[k].url = f.html_url /\ out[k].message = m}) = 1

(* C5: when fnm ends, the reported commits are exactly the commits of       *)
(* resolvable forks whose message is no upstream message, in fork order and *)
(* then commit order.                                                       *)
C5_ReportedIffMissing ==
    FnmEnded =>
        /\ \A k \in CommitLines : out[k].message \notin Range(UpstreamMessages)
        /\ \A f \in Range(ctx.forks) : \A j \in Missing(f) :
              \E k \in CommitLines : out[k].url = f.html_url /\ out[k].index = j
        /\ \A k1, k2 \in CommitLines :
              k1 < k2 => \/ out[k1].url < out[k2].url
                         \/ out[k1].url = out[k2].url /\ out[k1].index < out[k2].index

(* C6: when fnm ends, every fork whose commit listing answered 404 has a    *)
(* notice and no reported commit, and the missing commits of every fork     *)
(* after it are reported.                                                   *)
C6_NotFoundForkSkipped ==
    FnmEnded =>
        \A k \in 1..Len(ctx.forks) :
            ctx.forks[k].commits.status = NotFound
               => /\ NoticeFor(ctx.forks[k].html_url)
                  /\ \A l \in CommitLines : out[l].url # ctx.forks[k].html_url
                  /\ \A k2 \in (k + 1)..Len(ctx.forks) : \A j \in Missing(ctx.forks[k2]) :
                        \E l \in CommitLines :
                            out[l].url = ctx.forks[k2].html_url /\ out[l].index = j

(* C10: the context cli hands to the subcommands carries the repository     *)
(* object resolved from the URL's owner/repo pair, whose commits can be     *)
(* listed, with the fork list and the client.                               *)
C10_CtxCarriesRepository ==
    CtxBuilt =>
        /\ ctx.repository = RepositoryObj(url[1], url[2])
        /\ HasAttr(ctx.repository, "commits")
        /\ ctx.forks \in ForkLists
        /\ ctx.gh = "gh"

====
